---- MODULE Spec2Model ----
(***************************************************************************)
(* A model of the `ang` crate (src/src/lib.rs): the unit-tagged angle      *)
(* Angle<T> = Radians(T) | Degrees(T) and its operations.                  *)
(*                                                                         *)
(* The payload kind T is modelled for two instances:                       *)
(*   "f"  a binary floating-point kind (the crate's default, T = f64),     *)
(*        scaled down to Prec significand bits with round-to-nearest-even; *)
(*        a payload is an integer number of units of 2^-FracBits and is    *)
(*        always a representable value of the format.  Payloads are finite *)
(*        (no NaN, no infinity) and the inputs are bounded, so no result   *)
(*        overflows.                                                       *)
(*   "i"  a signed integer kind (T = i32): a payload is the integer; the   *)
(*        conversions go through f64 and truncate on the cast back.        *)
(***************************************************************************)
EXTENDS Integers, Sequences, FiniteSets

VARIABLES
    kind,     \* the payload kind T of the angles in play: "f" or "i"
    self,     \* the receiver: [unit, v]
    other,    \* the right-hand angle of the last operation
    k,        \* the scalar of the last operation
    angles,   \* the sequence handed to mean_angle
    op,       \* the last operation applied
    out,      \* its result when it is an angle
    truth,    \* its result when it is a bool
    ord,      \* its result when it is an Ordering
    num       \* its result when it is a bare T

vars == <<kind, self, other, k, angles, op, out, truth, ord, num>>

(***************************************************************************)
(* The floating-point kind.                                                *)
(***************************************************************************)
Prec == 9
FracBits == 9

Pow2(e) == 2^e

One == Pow2(FracBits)

AbsI(n) == IF n < 0 THEN -n ELSE n

SignI(n) == IF n < 0 THEN -1 ELSE 1

RECURSIVE BitLen(_)
BitLen(n) == IF n = 0 THEN 0 ELSE 1 + BitLen(n \div 2)

\* The exponent of the last place of a value of magnitude q (in units).
LastPlace(q) == IF q < Pow2(Prec) THEN 0 ELSE BitLen(q) - Prec

\* num/den units, rounded to the nearest representable value, ties to even.
RoundRat(n, d) ==
    LET a  == AbsI(n)
        e  == LastPlace(a \div d)
        dd == d * Pow2(e)
        q  == a \div dd
        r  == a % dd
        up == (r > dd - r) \/ (r = dd - r /\ q % 2 = 1)
    IN  SignI(n) * (IF up THEN q + 1 ELSE q) * Pow2(e)

RoundF(n) == RoundRat(n, 1)

\* One unit in the last place of x.
Ulp(x) == Pow2(LastPlace(AbsI(x)))

RECURSIVE TrailingZeros(_)
TrailingZeros(n) == IF n = 0 \/ n % 2 = 1 THEN 0 ELSE 1 + TrailingZeros(n \div 2)

\* x = Mant(x) * 2^Expo(x), Mant(x) odd (or 0): a representable x has |Mant(x)| < 2^Prec.
Expo(x) == TrailingZeros(AbsI(x))
Mant(x) == x \div Pow2(Expo(x))

FAdd(x, y) == RoundF(x + y)
FSub(x, y) == RoundF(x - y)

FMul(x, y) ==
    LET s == Expo(x) + Expo(y) - FracBits
        m == Mant(x) * Mant(y)
    IN  IF s >= 0 THEN RoundF(m) * Pow2(s) ELSE RoundRat(m, Pow2(-s))

FDiv(x, y) ==
    LET s  == Expo(x) + FracBits - Expo(y)
        mx == Mant(x) * SignI(y)
        my == AbsI(Mant(y))
    IN  IF s >= 0 THEN RoundRat(mx * Pow2(s), my) ELSE RoundRat(mx, my * Pow2(-s))

\* The remainder of the truncating division: it has the sign of x and is exact.
TruncRem(x, y) == SignI(x) * (AbsI(x) % AbsI(y))

\* The quotient of the truncating division.
TruncDiv(x, y) == SignI(x) * SignI(y) * (AbsI(x) \div AbsI(y))

(***************************************************************************)
(* The transcendental functions of the floating-point kind (T::sin_cos,    *)
(* T::atan2), correctly rounded.  The representable values x >= 0 are      *)
(* numbered in increasing order: TabValue(i) is the i-th, TabIndex its     *)
(* inverse.  SinTab and CosTab hold the rounded sine and cosine of the     *)
(* values below 16 rad; MidCosTab[i] and MidSinTab[i] hold the cosine and  *)
(* sine, scaled by 2^16, of the midpoint between the (i-1)-th and the i-th *)
(* value, for the values up to the rounded pi.                             *)
(***************************************************************************)
TabIndex(n) == LET e == LastPlace(n) IN Pow2(Prec - 1) * e + (n \div Pow2(e))

TabValue(i) ==
    IF i < Pow2(Prec) THEN i
    ELSE (Pow2(Prec - 1) + (i % Pow2(Prec - 1))) * Pow2((i \div Pow2(Prec - 1)) - 1)

SinTab ==
    <<
      0, 1, 2, 3, 4, 5, 6, 7, 8, 9, 10, 11, 12, 13, 14, 15,
      16, 17, 18, 19, 20, 21, 22, 23, 24, 25, 26, 27, 28, 29, 30, 31,
      32, 33, 34, 35, 36, 37, 38, 39, 40, 41, 42, 43, 44, 45, 46, 47,
      48, 49, 50, 51, 52, 53, 54, 55, 56, 57, 58, 59, 60, 61, 62, 63,
      64, 65, 66, 67, 68, 69, 70, 71, 72, 73, 74, 75, 76, 77, 78, 79,
      80, 81, 82, 83, 84, 85, 86, 87, 88, 89, 90, 91, 92, 92, 93, 94,
      95, 96, 97, 98, 99, 100, 101, 102, 103, 104, 105, 106, 107, 108, 109, 110,
      111, 112, 113, 114, 115, 116, 117, 118, 119, 120, 121, 122, 123, 124, 125, 126,
      127, 128, 129, 130, 131, 132, 132, 133, 134, 135, 136, 137, 138, 139, 140, 141,
      142, 143, 144, 145, 146, 147, 148, 149, 150, 151, 152, 153, 154, 155, 156, 156,
      157, 158, 159, 160, 161, 162, 163, 164, 165, 166, 167, 168, 169, 170, 171, 172,
      173, 173, 174, 175, 176, 177, 178, 179, 180, 181, 182, 183, 184, 185, 186, 187,
      188, 188, 189, 190, 191, 192, 193, 194, 195, 196, 197, 198, 199, 200, 200, 201,
      202, 203, 204, 205, 206, 207, 208, 209, 210, 211, 211, 212, 213, 214, 215, 216,
      217, 218, 219, 220, 221, 221, 222, 223, 224, 225, 226, 227, 228, 229, 230, 230,
      231, 232, 233, 234, 235, 236, 237, 238, 238, 239, 240, 241, 242, 243, 244, 245,
      245, 246, 247, 248, 249, 250, 251, 252, 252, 253, 254, 255, 256, 257, 258, 259,
      259, 260, 261, 262, 263, 264, 265, 265, 266, 267, 268, 269, 270, 271, 271, 272,
      273, 274, 275, 276, 276, 277, 278, 279, 280, 281, 281, 282, 283, 284, 285, 286,
      286, 287, 288, 289, 290, 291, 291, 292, 293, 294, 295, 296, 296, 297, 298, 299,
      300, 300, 301, 302, 303, 304, 304, 305, 306, 307, 308, 308, 309, 310, 311, 312,
      312, 313, 314, 315, 316, 316, 317, 318, 319, 319, 320, 321, 322, 323, 323, 324,
      325, 326, 326, 327, 328, 329, 330, 330, 331, 332, 333, 333, 334, 335, 336, 336,
      337, 338, 339, 339, 340, 341, 342, 342, 343, 344, 345, 345, 346, 347, 348, 348,
      349, 350, 350, 351, 352, 353, 353, 354, 355, 356, 356, 357, 358, 358, 359, 360,
      361, 361, 362, 363, 363, 364, 365, 365, 366, 367, 368, 368, 369, 370, 370, 371,
      372, 372, 373, 374, 374, 375, 376, 376, 377, 378, 379, 379, 380, 381, 381, 382,
      383, 383, 384, 385, 385, 386, 386, 387, 388, 388, 389, 390, 390, 391, 392, 392,
      393, 394, 394, 395, 396, 396, 397, 397, 398, 399, 399, 400, 401, 401, 402, 402,
      403, 404, 404, 405, 405, 406, 407, 407, 408, 409, 409, 410, 410, 411, 412, 412,
      413, 413, 414, 414, 415, 416, 416, 417, 417, 418, 419, 419, 420, 420, 421, 421,
      422, 423, 423, 424, 424, 425, 425, 426, 426, 427, 428, 428, 429, 429, 430, 430,
      431, 432, 433, 434, 435, 436, 437, 438, 439, 440, 441, 442, 443, 444, 445, 446,
      447, 448, 449, 450, 451, 452, 453, 454, 455, 456, 457, 458, 458, 459, 460, 461,
      462, 463, 464, 465, 465, 466, 467, 468, 469, 469, 470, 471, 472, 473, 473, 474,
      475, 476, 476, 477, 478, 478, 479, 480, 481, 481, 482, 483, 483, 484, 485, 485,
      486, 487, 487, 488, 488, 489, 490, 490, 491, 491, 492, 492, 493, 493, 494, 495,
      495, 496, 496, 497, 497, 497, 498, 498, 499, 499, 500, 500, 501, 501, 501, 502,
      502, 503, 503, 503, 504, 504, 504, 505, 505, 505, 506, 506, 506, 507, 507, 507,
      507, 508, 508, 508, 508, 509, 509, 509, 509, 510, 510, 510, 510, 510, 510, 511,
      511, 511, 511, 511, 511, 511, 511, 512, 512, 512, 512, 512, 512, 512, 512, 512,
      512, 512, 512, 512, 512, 512, 512, 512, 512, 512, 512, 512, 512, 512, 511, 511,
      511, 511, 511, 511, 511, 511, 510, 510, 510, 510, 510, 510, 509, 509, 509, 509,
      509, 508, 508, 508, 508, 507, 507, 507, 506, 506, 506, 505, 505, 505, 504, 504,
      504, 503, 503, 503, 502, 502, 502, 501, 501, 500, 500, 499, 499, 499, 498, 498,
      497, 497, 496, 496, 495, 495, 494, 494, 493, 493, 492, 491, 491, 490, 490, 489,
      488, 488, 487, 487, 486, 485, 485, 484, 483, 483, 482, 481, 481, 480, 479, 479,
      478, 477, 477, 476, 475, 474, 474, 473, 472, 471, 470, 470, 469, 468, 467, 466,
      466, 464, 462, 460, 459, 457, 455, 453, 451, 449, 448, 446, 444, 442, 440, 437,
      435, 433, 431, 429, 427, 425, 422, 420, 418, 415, 413, 411, 408, 406, 403, 401,
      398, 396, 393, 391, 388, 386, 383, 380, 378, 375, 372, 369, 367, 364, 361, 358,
      355, 352, 349, 346, 343, 340, 337, 334, 331, 328, 325, 322, 319, 316, 313, 310,
      306, 303, 300, 297, 293, 290, 287, 284, 280, 277, 273, 270, 267, 263, 260, 256,
      253, 249, 246, 242, 239, 235, 232, 228, 225, 221, 217, 214, 210, 206, 203, 199,
      195, 192, 188, 184, 181, 177, 173, 169, 165, 162, 158, 154, 150, 146, 143, 139,
      135, 131, 127, 123, 119, 115, 112, 108, 104, 100, 96, 92, 88, 84, 80, 76,
      72, 68, 64, 60, 56, 52, 48, 44, 40, 36, 32, 28, 24, 20, 16, 12,
      8, 4, 0, -4, -8, -12, -16, -19, -23, -27, -31, -35, -39, -43, -47, -51,
      -55, -59, -63, -67, -71, -75, -79, -83, -87, -91, -95, -99, -103, -107, -111, -115,
      -118, -122, -126, -130, -134, -138, -142, -145, -149, -153, -157, -161, -165, -168, -172, -176,
      -180, -183, -187, -191, -194, -198, -202, -206, -209, -213, -216, -220, -224, -227, -231, -234,
      -238, -242, -245, -249, -252, -255, -259, -262, -266, -269, -273, -276, -279, -283, -286, -289,
      -293, -296, -299, -302, -306, -309, -312, -315, -318, -321, -325, -328, -331, -334, -337, -340,
      -343, -346, -349, -352, -354, -357, -360, -363, -366, -369, -371, -374, -377, -380, -382, -385,
      -387, -393, -398, -403, -408, -412, -417, -422, -426, -431, -435, -439, -443, -447, -451, -455,
      -458, -462, -465, -468, -472, -475, -478, -480, -483, -486, -488, -491, -493, -495, -497, -499,
      -500, -502, -504, -505, -506, -507, -508, -509, -510, -511, -511, -512, -512, -512, -512, -512,
      -512, -511, -511, -510, -509, -509, -508, -506, -505, -504, -502, -501, -499, -497, -495, -493,
      -491, -489, -486, -484, -481, -478, -475, -472, -469, -466, -462, -459, -455, -452, -448, -444,
      -440, -436, -431, -427, -423, -418, -413, -409, -404, -399, -394, -388, -383, -378, -372, -367,
      -361, -356, -350, -344, -338, -332, -326, -319, -313, -307, -300, -294, -287, -281, -274, -267,
      -260, -253, -246, -239, -232, -225, -218, -211, -203, -196, -188, -181, -173, -166, -158, -151,
      -143, -135, -128, -120, -112, -104, -96, -89, -81, -73, -65, -57, -49, -41, -33, -25,
      -17, -9, -1, 7, 15, 23, 31, 39, 47, 55, 63, 71, 79, 87, 94, 102,
      110, 118, 126, 133, 141, 149, 156, 164, 172, 179, 187, 194, 201, 209, 216, 223,
      230, 238, 245, 252, 259, 265, 272, 279, 286, 292, 299, 305, 312, 318, 324, 330,
      336, 342, 348, 354, 360, 365, 371, 377, 382, 387, 392, 397, 402, 407, 412, 417,
      421, 426, 430, 435, 439, 443, 447, 451, 454, 458, 462, 465, 468, 471, 474, 477,
      480, 483, 486, 488, 490, 493, 495, 497, 499, 500, 502, 504, 505, 506, 507, 508,
      509, 510, 511, 511, 512, 512, 512, 512, 512, 512, 511, 511, 510, 509, 509, 508,
      507, 504, 501, 497, 493, 489, 484, 478, 472, 466, 459, 452, 444, 436, 427, 418,
      409, 399, 389, 378, 367, 356, 344, 332, 320, 307, 294, 281, 268, 254, 240, 225,
      211, 196, 181, 166, 151, 136, 120, 105, 89, 73, 57, 41, 25, 9, -7, -23,
      -38, -54, -70, -86, -102, -117, -133, -148, -164, -179, -194, -208, -223, -237, -251, -265,
      -279, -292, -305, -318, -330, -342, -354, -365, -376, -387, -397, -407, -417, -426, -434, -443,
      -450, -458, -465, -471, -477, -483, -488, -493, -497, -500, -503, -506, -508, -510, -511, -512,
      -512, -512, -511, -510, -508, -505, -503, -499, -496, -491, -487, -481, -476, -469, -463, -456,
      -448, -440, -432, -423, -414, -404, -394, -384, -373, -362, -350, -339, -326, -314, -301, -288,
      -275, -261, -247, -233, -219, -204, -189, -174, -159, -144, -129, -113, -97, -82, -66, -50,
      -34, -18, -2, 14, 30, 46, 62, 78, 93, 109, 125, 140, 156, 171, 186, 201,
      215, 230, 244, 258, 271, 285, 298, 311, 323, 336, 348, 359, 370, 381, 392, 402,
      412, 421, 430, 438, 446, 454, 461, 468, 474, 480, 485, 490, 495, 498, 502, 505,
      507, 509, 511, 512, 512, 512, 511, 510, 509, 507, 504, 501, 498, 494, 489, 484,
      479, 473, 466, 460, 452, 445, 436, 428, 419, 409, 400, 389, 379, 368, 357, 345,
      333, 321, 308, 295, 282, 268, 255, 241, 226, 212, 197, 182, 167, 152, 137, 121,
      106, 90, 74, 58, 42, 26, 10, -6, -22, -37, -53, -69, -85, -101, -116, -132
    >>

CosTab ==
    <<
      512, 512, 512, 512, 512, 512, 512, 512, 512, 512, 512, 512, 512, 512, 512, 512,
      512, 512, 512, 512, 512, 512, 512, 511, 511, 511, 511, 511, 511, 511, 511, 511,
      511, 511, 511, 511, 511, 511, 511, 511, 510, 510, 510, 510, 510, 510, 510, 510,
      510, 510, 510, 509, 509, 509, 509, 509, 509, 509, 509, 509, 508, 508, 508, 508,
      508, 508, 508, 508, 507, 507, 507, 507, 507, 507, 507, 507, 506, 506, 506, 506,
      506, 506, 505, 505, 505, 505, 505, 505, 504, 504, 504, 504, 504, 504, 503, 503,
      503, 503, 503, 502, 502, 502, 502, 502, 501, 501, 501, 501, 501, 500, 500, 500,
      500, 500, 499, 499, 499, 499, 498, 498, 498, 498, 498, 497, 497, 497, 497, 496,
      496, 496, 496, 495, 495, 495, 495, 494, 494, 494, 494, 493, 493, 493, 492, 492,
      492, 492, 491, 491, 491, 490, 490, 490, 490, 489, 489, 489, 488, 488, 488, 488,
      487, 487, 487, 486, 486, 486, 485, 485, 485, 484, 484, 484, 483, 483, 483, 482,
      482, 482, 481, 481, 481, 480, 480, 480, 479, 479, 479, 478, 478, 478, 477, 477,
      476, 476, 476, 475, 475, 475, 474, 474, 473, 473, 473, 472, 472, 472, 471, 471,
      470, 470, 470, 469, 469, 468, 468, 468, 467, 467, 466, 466, 465, 465, 465, 464,
      464, 463, 463, 462, 462, 462, 461, 461, 460, 460, 459, 459, 459, 458, 458, 457,
      457, 456, 456, 455, 455, 454, 454, 454, 453, 453, 452, 452, 451, 451, 450, 450,
      449, 449, 448, 448, 447, 447, 446, 446, 445, 445, 444, 444, 443, 443, 442, 442,
      441, 441, 440, 440, 439, 439, 438, 438, 437, 437, 436, 436, 435, 435, 434, 434,
      433, 433, 432, 432, 431, 430, 430, 429, 429, 428, 428, 427, 427, 426, 425, 425,
      424, 424, 423, 423, 422, 422, 421, 420, 420, 419, 419, 418, 418, 417, 416, 416,
      415, 415, 414, 413, 413, 412, 412, 411, 410, 410, 409, 409, 408, 407, 407, 406,
      406, 405, 404, 404, 403, 403, 402, 401, 401, 400, 399, 399, 398, 398, 397, 396,
      396, 395, 394, 394, 393, 392, 392, 391, 391, 390, 389, 389, 388, 387, 387, 386,
      385, 385, 384, 383, 383, 382, 381, 381, 380, 379, 379, 378, 377, 377, 376, 375,
      375, 374, 373, 373, 372, 371, 371, 370, 369, 368, 368, 367, 366, 366, 365, 364,
      364, 363, 362, 361, 361, 360, 359, 359, 358, 357, 356, 356, 355, 354, 354, 353,
      352, 351, 351, 350, 349, 348, 348, 347, 346, 346, 345, 344, 343, 343, 342, 341,
      340, 340, 339, 338, 337, 337, 336, 335, 334, 334, 333, 332, 331, 330, 330, 329,
      328, 327, 327, 326, 325, 324, 324, 323, 322, 321, 320, 320, 319, 318, 317, 317,
      316, 315, 314, 313, 313, 312, 311, 310, 309, 309, 308, 307, 306, 305, 305, 304,
      303, 302, 301, 301, 300, 299, 298, 297, 297, 296, 295, 294, 293, 292, 292, 291,
      290, 289, 288, 287, 287, 286, 285, 284, 283, 282, 282, 281, 280, 279, 278, 277,
      277, 275, 273, 272, 270, 268, 266, 265, 263, 261, 260, 258, 256, 254, 253, 251,
      249, 247, 246, 244, 242, 240, 239, 237, 235, 233, 232, 230, 228, 226, 224, 223,
      221, 219, 217, 215, 214, 212, 210, 208, 206, 204, 203, 201, 199, 197, 195, 193,
      191, 190, 188, 186, 184, 182, 180, 178, 177, 175, 173, 171, 169, 167, 165, 163,
      161, 160, 158, 156, 154, 152, 150, 148, 146, 144, 142, 140, 139, 137, 135, 133,
      131, 129, 127, 125, 123, 121, 119, 117, 115, 113, 111, 109, 107, 105, 104, 102,
      100, 98, 96, 94, 92, 90, 88, 86, 84, 82, 80, 78, 76, 74, 72, 70,
      68, 66, 64, 62, 60, 58, 56, 54, 52, 50, 48, 46, 44, 42, 40, 38,
      36, 34, 32, 30, 28, 26, 24, 22, 20, 18, 16, 14, 12, 10, 8, 6,
      4, 2, 0, -2, -4, -6, -8, -10, -12, -14, -16, -18, -20, -22, -24, -26,
      -28, -30, -32, -34, -36, -38, -40, -42, -44, -46, -48, -50, -52, -54, -56, -58,
      -60, -62, -64, -66, -68, -70, -72, -73, -75, -77, -79, -81, -83, -85, -87, -89,
      -91, -93, -95, -97, -99, -101, -103, -105, -107, -109, -111, -113, -115, -117, -119, -121,
      -123, -124, -126, -128, -130, -132, -134, -136, -138, -140, -142, -144, -146, -148, -150, -151,
      -153, -155, -157, -159, -161, -163, -165, -167, -169, -170, -172, -174, -176, -178, -180, -182,
      -184, -185, -187, -189, -191, -193, -195, -197, -198, -200, -202, -204, -206, -208, -209, -211,
      -213, -217, -220, -224, -228, -231, -235, -238, -242, -245, -249, -252, -256, -259, -263, -266,
      -269, -273, -276, -280, -283, -286, -290, -293, -296, -299, -303, -306, -309, -312, -315, -319,
      -322, -325, -328, -331, -334, -337, -340, -343, -346, -349, -352, -355, -358, -360, -363, -366,
      -369, -372, -374, -377, -380, -382, -385, -388, -390, -393, -395, -398, -400, -403, -405, -408,
      -410, -413, -415, -417, -420, -422, -424, -426, -429, -431, -433, -435, -437, -439, -441, -443,
      -445, -447, -449, -451, -453, -455, -457, -458, -460, -462, -464, -465, -467, -469, -470, -472,
      -473, -475, -476, -478, -479, -481, -482, -483, -485, -486, -487, -488, -489, -491, -492, -493,
      -494, -495, -496, -497, -498, -499, -500, -501, -501, -502, -503, -504, -504, -505, -506, -506,
      -507, -507, -508, -508, -509, -509, -510, -510, -510, -511, -511, -511, -511, -512, -512, -512,
      -512, -512, -512, -512, -512, -512, -512, -512, -511, -511, -511, -511, -510, -510, -510, -509,
      -509, -509, -508, -508, -507, -506, -506, -505, -505, -504, -503, -502, -502, -501, -500, -499,
      -498, -497, -496, -495, -494, -493, -492, -491, -490, -489, -487, -486, -485, -484, -482, -481,
      -479, -478, -477, -475, -474, -472, -471, -469, -467, -466, -464, -462, -461, -459, -457, -455,
      -453, -451, -450, -448, -446, -444, -442, -440, -438, -435, -433, -431, -429, -427, -425, -422,
      -420, -418, -416, -413, -411, -408, -406, -404, -401, -399, -396, -393, -391, -388, -386, -383,
      -380, -378, -375, -372, -369, -367, -364, -361, -358, -355, -352, -350, -347, -344, -341, -338,
      -335, -329, -322, -316, -310, -303, -297, -290, -284, -277, -270, -263, -257, -250, -243, -236,
      -228, -221, -214, -207, -199, -192, -184, -177, -169, -162, -154, -147, -139, -131, -124, -116,
      -108, -100, -92, -84, -76, -69, -61, -53, -45, -37, -29, -21, -13, -5, 3, 11,
      19, 27, 35, 43, 51, 59, 67, 75, 83, 91, 99, 106, 114, 122, 130, 138,
      145, 153, 161, 168, 176, 183, 191, 198, 205, 213, 220, 227, 234, 241, 248, 255,
      262, 269, 276, 283, 289, 296, 302, 309, 315, 321, 327, 334, 340, 346, 351, 357,
      363, 368, 374, 379, 385, 390, 395, 400, 405, 410, 415, 419, 424, 428, 433, 437,
      441, 445, 449, 453, 456, 460, 463, 467, 470, 473, 476, 479, 482, 484, 487, 489,
      492, 494, 496, 498, 500, 501, 503, 504, 506, 507, 508, 509, 510, 510, 511, 511,
      512, 512, 512, 512, 512, 511, 511, 511, 510, 509, 508, 507, 506, 505, 503, 502,
      500, 498, 496, 494, 492, 490, 488, 485, 482, 480, 477, 474, 471, 468, 464, 461,
      457, 454, 450, 446, 442, 438, 434, 429, 425, 420, 416, 411, 406, 401, 396, 391,
      386, 381, 375, 370, 364, 359, 353, 347, 341, 335, 329, 323, 317, 310, 304, 297,
      291, 284, 277, 271, 264, 257, 250, 243, 236, 229, 222, 214, 207, 200, 192, 185,
      177, 170, 162, 155, 147, 139, 132, 124, 116, 108, 101, 93, 85, 77, 69, 61,
      53, 45, 37, 29, 21, 13, 5, -3, -11, -19, -27, -35, -43, -51, -59, -67,
      -74, -90, -106, -122, -137, -152, -168, -183, -198, -212, -227, -241, -255, -269, -282, -295,
      -308, -321, -333, -345, -357, -368, -379, -390, -400, -410, -419, -428, -437, -445, -452, -460,
      -466, -473, -479, -484, -489, -494, -498, -501, -504, -507, -509, -510, -511, -512, -512, -512,
      -511, -509, -507, -505, -502, -498, -494, -490, -485, -480, -474, -468, -461, -454, -446, -438,
      -430, -421, -411, -402, -392, -381, -370, -359, -347, -335, -323, -311, -298, -285, -271, -257,
      -243, -229, -215, -200, -185, -170, -155, -140, -124, -109, -93, -77, -62, -46, -30, -14,
      2, 18, 34, 50, 66, 82, 98, 113, 129, 144, 160, 175, 190, 204, 219, 233,
      247, 261, 275, 288, 301, 314, 327, 339, 351, 362, 373, 384, 394, 404, 414, 423,
      432, 440, 448, 456, 463, 470, 476, 481, 487, 491, 496, 499, 503, 505, 508, 510,
      511, 512, 512, 512, 511, 510, 508, 506, 503, 500, 497, 492, 488, 483, 477, 471,
      465, 458, 450, 442, 434, 425, 416, 407, 397, 387, 376, 365, 354, 342, 330, 317,
      305, 292, 278, 265, 251, 237, 223, 208, 193, 178, 163, 148, 133, 117, 102, 86,
      70, 54, 38, 22, 6, -10, -26, -42, -58, -74, -89, -105, -121, -136, -151, -167,
      -182, -197, -211, -226, -240, -254, -268, -281, -294, -307, -320, -332, -344, -356, -367, -378,
      -389, -399, -409, -418, -427, -436, -444, -452, -459, -466, -472, -478, -484, -489, -493, -497,
      -501, -504, -507, -509, -510, -511, -512, -512, -512, -511, -509, -507, -505, -502, -499, -495
    >>

MidCosTab ==
    <<
      65536, 65536, 65535, 65534, 65533, 65532, 65531, 65529, 65527, 65525, 65522, 65519, 65516, 65513, 65510, 65506,
      65502, 65498, 65493, 65488, 65483, 65478, 65473, 65467, 65461, 65455, 65448, 65441, 65434, 65427, 65420, 65412,
      65404, 65396, 65387, 65379, 65370, 65360, 65351, 65341, 65331, 65321, 65310, 65300, 65289, 65277, 65266, 65254,
      65242, 65230, 65217, 65205, 65192, 65179, 65165, 65151, 65137, 65123, 65109, 65094, 65079, 65064, 65048, 65033,
      65017, 65000, 64984, 64967, 64950, 64933, 64916, 64898, 64880, 64862, 64843, 64825, 64806, 64787, 64767, 64748,
      64728, 64707, 64687, 64666, 64645, 64624, 64603, 64581, 64559, 64537, 64515, 64492, 64469, 64446, 64423, 64399,
      64375, 64351, 64327, 64302, 64278, 64252, 64227, 64202, 64176, 64150, 64123, 64097, 64070, 64043, 64016, 63988,
      63960, 63932, 63904, 63876, 63847, 63818, 63789, 63759, 63729, 63699, 63669, 63639, 63608, 63577, 63546, 63514,
      63483, 63451, 63419, 63386, 63354, 63321, 63288, 63254, 63221, 63187, 63153, 63118, 63084, 63049, 63014, 62979,
      62943, 62907, 62871, 62835, 62799, 62762, 62725, 62688, 62650, 62613, 62575, 62537, 62498, 62460, 62421, 62382,
      62342, 62303, 62263, 62223, 62182, 62142, 62101, 62060, 62019, 61977, 61936, 61894, 61852, 61809, 61766, 61724,
      61680, 61637, 61593, 61550, 61505, 61461, 61417, 61372, 61327, 61282, 61236, 61190, 61144, 61098, 61052, 61005,
      60958, 60911, 60864, 60816, 60768, 60720, 60672, 60624, 60575, 60526, 60477, 60427, 60378, 60328, 60278, 60227,
      60177, 60126, 60075, 60024, 59972, 59920, 59868, 59816, 59764, 59711, 59658, 59605, 59552, 59498, 59444, 59390,
      59336, 59282, 59227, 59172, 59117, 59062, 59006, 58950, 58894, 58838, 58782, 58725, 58668, 58611, 58553, 58496,
      58438, 58380, 58322, 58263, 58204, 58145, 58086, 58027, 57967, 57907, 57847, 57787, 57727, 57666, 57605, 57544,
      57483, 57421, 57359, 57297, 57235, 57172, 57110, 57047, 56984, 56920, 56857, 56793, 56729, 56665, 56600, 56536,
      56471, 56406, 56341, 56275, 56209, 56144, 56077, 56011, 55945, 55878, 55811, 55744, 55676, 55609, 55541, 55473,
      55404, 55336, 55267, 55198, 55129, 55060, 54990, 54921, 54851, 54781, 54710, 54640, 54569, 54498, 54427, 54355,
      54284, 54212, 54140, 54068, 53995, 53922, 53850, 53777, 53703, 53630, 53556, 53482, 53408, 53334, 53259, 53185,
      53110, 53035, 52959, 52884, 52808, 52732, 52656, 52580, 52503, 52427, 52350, 52273, 52195, 52118, 52040, 51962,
      51884, 51806, 51727, 51649, 51570, 51491, 51411, 51332, 51252, 51172, 51092, 51012, 50932, 50851, 50770, 50689,
      50608, 50526, 50445, 50363, 50281, 50199, 50116, 50034, 49951, 49868, 49785, 49702, 49618, 49534, 49451, 49366,
      49282, 49198, 49113, 49028, 48943, 48858, 48773, 48687, 48601, 48515, 48429, 48343, 48256, 48170, 48083, 47996,
      47908, 47821, 47733, 47645, 47557, 47469, 47381, 47292, 47204, 47115, 47026, 46937, 46847, 46758, 46668, 46578,
      46488, 46397, 46307, 46216, 46125, 46034, 45943, 45852, 45760, 45669, 45577, 45485, 45392, 45300, 45207, 45115,
      45022, 44929, 44835, 44742, 44648, 44554, 44461, 44366, 44272, 44178, 44083, 43988, 43893, 43798, 43703, 43607,
      43512, 43416, 43320, 43224, 43128, 43031, 42934, 42838, 42741, 42644, 42546, 42449, 42351, 42253, 42156, 42057,
      41959, 41861, 41762, 41664, 41565, 41466, 41366, 41267, 41168, 41068, 40968, 40868, 40768, 40668, 40567, 40467,
      40366, 40265, 40164, 40063, 39961, 39860, 39758, 39656, 39554, 39452, 39350, 39247, 39145, 39042, 38939, 38836,
      38733, 38630, 38526, 38423, 38319, 38215, 38111, 38007, 37902, 37798, 37693, 37588, 37483, 37378, 37273, 37168,
      37062, 36957, 36851, 36745, 36639, 36533, 36426, 36320, 36213, 36106, 36000, 35893, 35785, 35678, 35571, 35463,
      35301, 35086, 34869, 34652, 34434, 34216, 33998, 33779, 33559, 33339, 33118, 32897, 32675, 32453, 32231, 32007,
      31784, 31560, 31335, 31110, 30884, 30658, 30432, 30205, 29978, 29750, 29521, 29293, 29063, 28834, 28604, 28373,
      28142, 27911, 27679, 27447, 27214, 26981, 26747, 26513, 26279, 26044, 25809, 25574, 25338, 25102, 24865, 24628,
      24390, 24153, 23914, 23676, 23437, 23198, 22958, 22718, 22478, 22237, 21996, 21755, 21513, 21271, 21029, 20786,
      20543, 20300, 20057, 19813, 19569, 19324, 19079, 18834, 18589, 18343, 18097, 17851, 17605, 17358, 17111, 16864,
      16616, 16369, 16121, 15872, 15624, 15375, 15126, 14877, 14627, 14378, 14128, 13878, 13628, 13377, 13126, 12875,
      12624, 12373, 12122, 11870, 11618, 11366, 11114, 10861, 10609, 10356, 10103, 9850, 9597, 9344, 9090, 8837,
      8583, 8329, 8075, 7821, 7567, 7312, 7058, 6803, 6549, 6294, 6039, 5784, 5529, 5274, 5019, 4764,
      4508, 4253, 3997, 3742, 3486, 3230, 2975, 2719, 2463, 2207, 1951, 1696, 1440, 1184, 928, 672,
      416, 160, -96, -352, -608, -864, -1120, -1376, -1632, -1888, -2144, -2400, -2656, -2911, -3167, -3423,
      -3678, -3934, -4189, -4445, -4700, -4956, -5211, -5466, -5721, -5976, -6231, -6486, -6740, -6995, -7249, -7504,
      -7758, -8012, -8266, -8520, -8774, -9027, -9281, -9534, -9788, -10041, -10293, -10546, -10799, -11051, -11303, -11556,
      -11807, -12059, -12311, -12562, -12813, -13064, -13315, -13566, -13816, -14066, -14316, -14566, -14815, -15064, -15313, -15562,
      -15811, -16059, -16307, -16555, -16803, -17050, -17297, -17544, -17790, -18036, -18282, -18528, -18774, -19019, -19264, -19508,
      -19752, -19996, -20240, -20483, -20726, -20969, -21211, -21453, -21695, -21937, -22178, -22418, -22659, -22899, -23138, -23378,
      -23617, -23855, -24094, -24331, -24569, -24806, -25043, -25279, -25515, -25751, -25986, -26221, -26455, -26689, -26923, -27156,
      -27505, -27969, -28431, -28892, -29350, -29807, -30262, -30716, -31167, -31616, -32064, -32509, -32953, -33394, -33834, -34271,
      -34707, -35140, -35571, -36000, -36427, -36851, -37274, -37694, -38111, -38527, -38940, -39350, -39758, -40164, -40568, -40968,
      -41367, -41763, -42156, -42547, -42935, -43320, -43703, -44083, -44461, -44836, -45208, -45577, -45944, -46307, -46668, -47026,
      -47381, -47734, -48083, -48429, -48773, -49113, -49451, -49785, -50117, -50445, -50771, -51093, -51412, -51728, -52041, -52350,
      -52657, -52960, -53260, -53556, -53850, -54140, -54427, -54710, -54991, -55268, -55541, -55811, -56078, -56341, -56601, -56857,
      -57110, -57359, -57605, -57848, -58087, -58322, -58554, -58782, -59006, -59227, -59445, -59658, -59869, -60075, -60278, -60477,
      -60672, -60864, -61052, -61236, -61417, -61594, -61767, -61936, -62101, -62263, -62421, -62575, -62725, -62872, -63014, -63153,
      -63288, -63419, -63546, -63669, -63789, -63904, -64016, -64123, -64227, -64327, -64423, -64515, -64603, -64687, -64767, -64844,
      -64916, -64984, -65048, -65109, -65165, -65218, -65266, -65310, -65351, -65387, -65420, -65448, -65473, -65493, -65510, -65522,
      -65531, -65535
    >>

MidSinTab ==
    <<
      64, 192, 320, 448, 576, 704, 832, 960, 1088, 1216, 1344, 1472, 1600, 1728, 1856, 1984,
      2112, 2240, 2367, 2495, 2623, 2751, 2879, 3007, 3135, 3263, 3390, 3518, 3646, 3774, 3902, 4029,
      4157, 4285, 4413, 4540, 4668, 4796, 4923, 5051, 5179, 5306, 5434, 5561, 5689, 5816, 5944, 6071,
      6199, 6326, 6454, 6581, 6708, 6836, 6963, 7090, 7217, 7345, 7472, 7599, 7726, 7853, 7980, 8107,
      8234, 8361, 8488, 8615, 8742, 8869, 8996, 9122, 9249, 9376, 9502, 9629, 9756, 9882, 10009, 10135,
      10262, 10388, 10514, 10641, 10767, 10893, 11019, 11146, 11272, 11398, 11524, 11650, 11776, 11902, 12027, 12153,
      12279, 12405, 12530, 12656, 12782, 12907, 13033, 13158, 13283, 13409, 13534, 13659, 13784, 13909, 14034, 14159,
      14284, 14409, 14534, 14659, 14784, 14908, 15033, 15158, 15282, 15406, 15531, 15655, 15779, 15904, 16028, 16152,
      16276, 16400, 16524, 16648, 16771, 16895, 17019, 17142, 17266, 17389, 17513, 17636, 17759, 17882, 18005, 18128,
      18251, 18374, 18497, 18620, 18743, 18865, 18988, 19110, 19233, 19355, 19477, 19599, 19722, 19844, 19966, 20087,
      20209, 20331, 20453, 20574, 20696, 20817, 20938, 21060, 21181, 21302, 21423, 21544, 21665, 21785, 21906, 22027,
      22147, 22268, 22388, 22508, 22628, 22748, 22868, 22988, 23108, 23228, 23348, 23467, 23587, 23706, 23825, 23944,
      24064, 24183, 24302, 24420, 24539, 24658, 24776, 24895, 25013, 25131, 25250, 25368, 25486, 25603, 25721, 25839,
      25956, 26074, 26191, 26309, 26426, 26543, 26660, 26777, 26894, 27010, 27127, 27243, 27360, 27476, 27592, 27708,
      27824, 27940, 28056, 28171, 28287, 28402, 28517, 28633, 28748, 28863, 28978, 29092, 29207, 29321, 29436, 29550,
      29664, 29778, 29892, 30006, 30120, 30234, 30347, 30461, 30574, 30687, 30800, 30913, 31026, 31138, 31251, 31363,
      31476, 31588, 31700, 31812, 31924, 32036, 32147, 32259, 32370, 32481, 32592, 32703, 32814, 32925, 33036, 33146,
      33256, 33367, 33477, 33587, 33697, 33806, 33916, 34025, 34135, 34244, 34353, 34462, 34571, 34679, 34788, 34896,
      35005, 35113, 35221, 35329, 35436, 35544, 35651, 35759, 35866, 35973, 36080, 36187, 36293, 36400, 36506, 36613,
      36719, 36825, 36930, 37036, 37142, 37247, 37352, 37457, 37562, 37667, 37772, 37876, 37981, 38085, 38189, 38293,
      38397, 38500, 38604, 38707, 38811, 38914, 39017, 39119, 39222, 39324, 39427, 39529, 39631, 39733, 39835, 39936,
      40037, 40139, 40240, 40341, 40442, 40542, 40643, 40743, 40843, 40943, 41043, 41143, 41242, 41342, 41441, 41540,
      41639, 41738, 41836, 41935, 42033, 42131, 42229, 42327, 42425, 42522, 42619, 42717, 42814, 42910, 43007, 43104,
      43200, 43296, 43392, 43488, 43584, 43679, 43775, 43870, 43965, 44060, 44154, 44249, 44343, 44437, 44531, 44625,
      44719, 44812, 44905, 44999, 45092, 45184, 45277, 45369, 45462, 45554, 45646, 45738, 45829, 45921, 46012, 46103,
      46194, 46284, 46375, 46465, 46556, 46646, 46735, 46825, 46914, 47004, 47093, 47182, 47271, 47359, 47447, 47536,
      47624, 47712, 47799, 47887, 47974, 48061, 48148, 48235, 48321, 48408, 48494, 48580, 48666, 48751, 48837, 48922,
      49007, 49092, 49177, 49261, 49346, 49430, 49514, 49597, 49681, 49764, 49848, 49931, 50013, 50096, 50178, 50261,
      50343, 50425, 50506, 50588, 50669, 50750, 50831, 50912, 50992, 51072, 51153, 51233, 51312, 51392, 51471, 51550,
      51629, 51708, 51786, 51865, 51943, 52021, 52099, 52176, 52254, 52331, 52408, 52484, 52561, 52637, 52713, 52789,
      52865, 52941, 53016, 53091, 53166, 53241, 53315, 53390, 53464, 53538, 53612, 53685, 53758, 53831, 53904, 53977,
      54050, 54122, 54194, 54266, 54337, 54409, 54480, 54551, 54622, 54693, 54763, 54833, 54903, 54973, 55043, 55112,
      55216, 55353, 55490, 55626, 55761, 55895, 56028, 56160, 56292, 56422, 56552, 56681, 56809, 56936, 57063, 57188,
      57313, 57437, 57559, 57681, 57802, 57923, 58042, 58160, 58278, 58395, 58510, 58625, 58739, 58852, 58964, 59076,
      59186, 59296, 59404, 59512, 59619, 59724, 59829, 59933, 60036, 60139, 60240, 60340, 60440, 60538, 60636, 60733,
      60828, 60923, 61017, 61110, 61202, 61293, 61383, 61472, 61561, 61648, 61734, 61820, 61904, 61988, 62071, 62152,
      62233, 62313, 62391, 62469, 62546, 62622, 62697, 62771, 62844, 62917, 62988, 63058, 63127, 63195, 63263, 63329,
      63395, 63459, 63522, 63585, 63646, 63707, 63767, 63825, 63883, 63939, 63995, 64050, 64103, 64156, 64208, 64259,
      64309, 64357, 64405, 64452, 64498, 64543, 64587, 64630, 64672, 64713, 64753, 64792, 64829, 64866, 64902, 64938,
      64972, 65005, 65037, 65068, 65098, 65127, 65155, 65182, 65208, 65233, 65257, 65280, 65302, 65323, 65344, 65363,
      65381, 65398, 65414, 65429, 65443, 65456, 65468, 65480, 65490, 65499, 65507, 65514, 65520, 65525, 65529, 65533,
      65535, 65536, 65536, 65535, 65533, 65530, 65526, 65522, 65516, 65509, 65501, 65492, 65482, 65471, 65459, 65447,
      65433, 65418, 65402, 65385, 65367, 65348, 65329, 65308, 65286, 65263, 65239, 65214, 65188, 65162, 65134, 65105,
      65075, 65044, 65013, 64980, 64946, 64911, 64876, 64839, 64801, 64762, 64723, 64682, 64640, 64598, 64554, 64509,
      64464, 64417, 64369, 64321, 64271, 64221, 64169, 64117, 64063, 64009, 63953, 63897, 63839, 63781, 63722, 63661,
      63600, 63538, 63475, 63411, 63345, 63279, 63212, 63144, 63075, 63005, 62934, 62862, 62789, 62716, 62641, 62565,
      62489, 62411, 62332, 62253, 62172, 62091, 62008, 61925, 61841, 61756, 61669, 61582, 61494, 61405, 61315, 61225,
      61133, 61040, 60946, 60852, 60756, 60660, 60563, 60464, 60365, 60265, 60164, 60062, 59959, 59855, 59750, 59645,
      59485, 59268, 59048, 58824, 58596, 58365, 58131, 57892, 57651, 57405, 57157, 56904, 56649, 56390, 56127, 55861,
      55591, 55319, 55042, 54763, 54480, 54194, 53904, 53611, 53315, 53016, 52713, 52407, 52098, 51786, 51471, 51152,
      50831, 50506, 50178, 49847, 49513, 49176, 48836, 48493, 48148, 47799, 47447, 47092, 46735, 46375, 46011, 45645,
      45277, 44905, 44531, 44154, 43774, 43392, 43007, 42619, 42229, 41836, 41441, 41043, 40642, 40239, 39834, 39426,
      39016, 38604, 38189, 37771, 37352, 36930, 36506, 36080, 35651, 35220, 34787, 34352, 33915, 33476, 33035, 32592,
      32147, 31700, 31250, 30799, 30347, 29892, 29435, 28977, 28517, 28055, 27591, 27126, 26659, 26191, 25721, 25249,
      24776, 24301, 23825, 23347, 22868, 22387, 21906, 21422, 20938, 20452, 19965, 19477, 18987, 18497, 18005, 17512,
      17018, 16523, 16027, 15530, 15032, 14534, 14034, 13533, 13032, 12530, 12027, 11523, 11019, 10514, 10008, 9502,
      8995, 8488, 7980, 7471, 6962, 6453, 5943, 5433, 4923, 4412, 3901, 3390, 2878, 2367, 1855, 1343,
      831, 319
    >>

FSin(x) == SignI(x) * SinTab[TabIndex(AbsI(x)) + 1]

FCos(x) == CosTab[TabIndex(AbsI(x)) + 1]

\* The direction (x, y), y >= 0, lies beyond the i-th midpoint.
Beyond(y, x, i) == y * MidCosTab[i] - x * MidSinTab[i] > 0

RECURSIVE AtanSearch(_, _, _, _)
AtanSearch(y, x, lo, hi) ==
    IF lo = hi THEN lo
    ELSE LET mid == (lo + hi + 1) \div 2
         IN  IF Beyond(y, x, mid) THEN AtanSearch(y, x, mid, hi)
             ELSE AtanSearch(y, x, lo, mid - 1)

\* y.atan2(x): the representable value nearest to the angle of (x, y), in [-pi, pi].
FAtan2(y, x) == SignI(y) * TabValue(AtanSearch(AbsI(y), x, 0, Len(MidCosTab)))

(***************************************************************************)
(* The payload kind T: its arithmetic and its casts from f64.              *)
(***************************************************************************)
Kinds == {"f", "i"}

\* core::f64::consts::PI, as the ratio PiNum / PiDen.
PiNum == 355
PiDen == 113

TAdd(t, x, y) == IF t = "f" THEN FAdd(x, y) ELSE x + y

TSub(t, x, y) == IF t = "f" THEN FSub(x, y) ELSE x - y

TMul(t, x, y) == IF t = "f" THEN FMul(x, y) ELSE x * y

TDiv(t, x, y) == IF t = "f" THEN FDiv(x, y) ELSE TruncDiv(x, y)

TRem(t, x, y) == TruncRem(x, y)

\* cast(n) of a whole number n.
Whole(t, n) == IF t = "f" THEN RoundF(n * One) ELSE n

\* cast(PI)
PiT(t) == IF t = "f" THEN RoundRat(PiNum * One, PiDen) ELSE TruncDiv(PiNum, PiDen)

\* cast(2.0 * PI)
TwoPiT(t) == IF t = "f" THEN FMul(Whole("f", 2), PiT("f")) ELSE TruncDiv(2 * PiNum, PiDen)

Compare(x, y) == IF x < y THEN "Less" ELSE IF x = y THEN "Equal" ELSE "Greater"

MinI(x, y) == IF y < x THEN y ELSE x

(***************************************************************************)
(* Angle<T> and its operations.                                            *)
(***************************************************************************)
Radians(v) == [unit |-> "Radians", v |-> v]

Degrees(v) == [unit |-> "Degrees", v |-> v]

zero == Radians(0)

in_radians(t, a) ==
    IF a.unit = "Radians" THEN a.v
    ELSE IF t = "f" THEN FMul(FDiv(a.v, Whole("f", 180)), PiT("f"))
    ELSE TruncDiv(a.v * PiNum, 180 * PiDen)

\* A slip: the Radians arm carries the factor of the other conversion.
in_degrees_swapped(t, a) ==
    IF a.unit = "Degrees" THEN a.v
    ELSE IF t = "f" THEN FMul(FDiv(a.v, Whole("f", 180)), PiT("f"))
    ELSE TruncDiv(a.v * PiNum, 180 * PiDen)

in_degrees(t, a) ==
    IF a.unit = "Degrees" THEN a.v
    ELSE IF t = "f" THEN FMul(FDiv(a.v, PiT("f")), Whole("f", 180))
    ELSE TruncDiv(a.v * 180 * PiDen, PiNum)

normalized(t, a) ==
    LET v     == a.v
        upper == IF a.unit = "Radians" THEN TwoPiT(t) ELSE Whole(t, 360)
        n     == IF v < upper /\ v >= 0 THEN v
                 ELSE LET w == TRem(t, v, upper)
                      IN  IF w >= 0 THEN w ELSE TAdd(t, w, upper)
    IN  [unit |-> a.unit, v |-> n]

\* A slip: the general path reduces the difference but does not fold it.
min_dist_unfolded(a, b) ==
    LET two_pi == TwoPiT("f")
        ra     == in_radians("f", a)
        rb     == in_radians("f", b)
        d      == AbsI(FSub(ra, rb))
    IN  Radians(IF ra >= 0 /\ ra < two_pi /\ rb >= 0 /\ rb < two_pi
                THEN MinI(d, FSub(two_pi, d))
                ELSE TRem("f", d, two_pi))

\* A slip: the fast path is taken whether or not the operands are normalized.
min_dist_always_fast(a, b) ==
    LET two_pi == TwoPiT("f")
        d      == AbsI(FSub(in_radians("f", a), in_radians("f", b)))
    IN  Radians(MinI(d, FSub(two_pi, d)))

\* T: Float only.
min_dist(a, b) ==
    LET pi     == PiT("f")
        two_pi == TwoPiT("f")
        ra     == in_radians("f", a)
        rb     == in_radians("f", b)
        d      == AbsI(FSub(ra, rb))
    IN  Radians(IF ra >= 0 /\ ra < two_pi /\ rb >= 0 /\ rb < two_pi
                THEN MinI(d, FSub(two_pi, d))
                ELSE FSub(pi, AbsI(FSub(TRem("f", d, two_pi), pi))))

\* A slip: the payloads are always compared in radians.
eq_always_radians(t, a, b) == in_radians(t, a) = in_radians(t, b)

eq(t, a, b) ==
    IF a.unit = "Degrees" /\ b.unit = "Degrees" THEN a.v = b.v
    ELSE in_radians(t, a) = in_radians(t, b)

\* A slip: the sum is always taken in radians.
add_always_radians(t, a, b) == Radians(TAdd(t, in_radians(t, a), in_radians(t, b)))

add(t, a, b) ==
    IF a.unit = "Degrees" /\ b.unit = "Degrees" THEN Degrees(TAdd(t, a.v, b.v))
    ELSE Radians(TAdd(t, in_radians(t, a), in_radians(t, b)))

sub(t, a, b) ==
    IF a.unit = "Degrees" /\ b.unit = "Degrees" THEN Degrees(TSub(t, a.v, b.v))
    ELSE Radians(TSub(t, in_radians(t, a), in_radians(t, b)))

\* A slip: the receiver keeps its variant when the operands are mixed.
add_assign_keeps_unit(t, a, b) ==
    IF a.unit = "Degrees"
    THEN Degrees(TAdd(t, a.v, in_degrees(t, b)))
    ELSE Radians(TAdd(t, a.v, in_radians(t, b)))

\* The receiver after `a += b`.
add_assign(t, a, b) ==
    IF a.unit = "Degrees" /\ b.unit = "Degrees"
    THEN LET a1 == TAdd(t, a.v, b.v) IN Degrees(a1)
    ELSE LET val == TAdd(t, in_radians(t, a), in_radians(t, b)) IN Radians(val)

\* The receiver after `a -= b`.
sub_assign(t, a, b) ==
    IF a.unit = "Degrees" /\ b.unit = "Degrees"
    THEN LET a1 == TSub(t, a.v, b.v) IN Degrees(a1)
    ELSE LET val == TSub(t, in_radians(t, a), in_radians(t, b)) IN Radians(val)

\* A slip: the scaling is done on the radian measure.
mul_in_radians(t, a, x) == Radians(TMul(t, in_radians(t, a), x))

mul(t, a, x) ==
    CASE a.unit = "Radians" -> Radians(TMul(t, a.v, x))
      [] a.unit = "Degrees" -> Degrees(TMul(t, a.v, x))

div(t, a, x) ==
    CASE a.unit = "Radians" -> Radians(TDiv(t, a.v, x))
      [] a.unit = "Degrees" -> Degrees(TDiv(t, a.v, x))

\* The receiver after `a *= x`: the payload is updated in place.
mul_assign(t, a, x) == [a EXCEPT !.v = TMul(t, @, x)]

\* The receiver after `a /= x`.
div_assign(t, a, x) == [a EXCEPT !.v = TDiv(t, @, x)]

partial_cmp(t, a, b) ==
    IF a.unit = "Radians" /\ b.unit = "Radians" THEN Compare(a.v, b.v)
    ELSE Compare(in_degrees(t, a), in_degrees(t, b))

\* T: Ord only.
cmp(t, a, b) ==
    IF a.unit = "Radians" /\ b.unit = "Radians" THEN Compare(a.v, b.v)
    ELSE Compare(in_degrees(t, a), in_degrees(t, b))

\* T: Float only: <<sin, cos>>.
sin_cos(a) == <<FSin(in_radians("f", a)), FCos(in_radians("f", a))>>

\* <<x, y>> after the loop of mean_angle has consumed the first j angles.
RECURSIVE Accumulate(_, _)
Accumulate(as, j) ==
    IF j = 0 THEN <<0, 0>>
    ELSE LET p  == Accumulate(as, j - 1)
             sc == sin_cos(as[j])
         IN  <<FAdd(p[1], sc[2]), FAdd(p[2], sc[1])>>

\* T: Float only; `as` is not empty.
mean_angle(as) ==
    LET xy == Accumulate(as, Len(as))
        n  == Whole("f", Len(as))
        a  == FAtan2(FDiv(xy[2], n), FDiv(xy[1], n))
    IN  normalized("f", Radians(a))

(***************************************************************************)
(* The inputs.                                                             *)
(***************************************************************************)
MaxTiny == 3      \* payloads of up to MaxTiny units of the last grid place
MaxUnit == 4      \* the whole payloads -MaxUnit..MaxUnit
MaxMark == 8      \* the multiples of 45 up to 45 * MaxMark
MaxScalar == 4    \* scalars: halves (floating) or wholes (integer) up to MaxScalar
MaxLen == 3       \* the longest sequence handed to mean_angle

WholePayloads ==
    (-MaxUnit..MaxUnit) \cup {45 * m : m \in -MaxMark..MaxMark} \cup {20, 57, 350, 450, 720}

Payloads(t) ==
    IF t = "i" THEN WholePayloads
    ELSE {Whole("f", w) : w \in WholePayloads} \cup (-MaxTiny..MaxTiny)
         \cup {PiT("f"), -PiT("f"), TwoPiT("f")}

Angles(t) == {Radians(v) : v \in Payloads(t)} \cup {Degrees(v) : v \in Payloads(t)}

Scalars(t) ==
    IF t = "i" THEN -MaxScalar..MaxScalar
    ELSE {s * (One \div 2) : s \in -MaxScalar..MaxScalar}

MeanAngles ==
    {Degrees(Whole("f", d)) : d \in {0, 20, 90, 180, 270, 350, 360}}
        \cup {Radians(-1), Radians(PiT("f"))}

RECURSIVE SeqsUpTo(_, _)
SeqsUpTo(S, n) ==
    IF n = 0 THEN {<<>>}
    ELSE LET shorter == SeqsUpTo(S, n - 1)
         IN  shorter \cup {Append(q, e) : q \in {r \in shorter : Len(r) = n - 1}, e \in S}

(***************************************************************************)
(* The state machine: from the zero angle a receiver of either kind is     *)
(* built, then operations are applied to it.  A value-returning operation  *)
(* leaves its result in out, truth, ord or num; an in-place operation      *)
(* changes the receiver.                                                   *)
(***************************************************************************)
Fresh == op = "new"

Init ==
    /\ kind = "f"
    /\ self = zero
    /\ other = zero
    /\ k = 0
    /\ angles = <<>>
    /\ op = "zero"
    /\ out = zero
    /\ truth = FALSE
    /\ ord = "None"
    /\ num = 0

Construct ==
    /\ op = "zero"
    /\ \E t \in Kinds : \E a \in Angles(t) :
        /\ kind' = t
        /\ self' = a
    /\ op' = "new"
    /\ UNCHANGED <<other, k, angles, out, truth, ord, num>>

Add ==
    /\ Fresh
    /\ \E b \in Angles(kind) :
        /\ other' = b
        /\ out' = add(kind, self, b)
    /\ op' = "add"
    /\ UNCHANGED <<kind, self, k, angles, truth, ord, num>>

Sub ==
    /\ Fresh
    /\ \E b \in Angles(kind) :
        /\ other' = b
        /\ out' = sub(kind, self, b)
    /\ op' = "sub"
    /\ UNCHANGED <<kind, self, k, angles, truth, ord, num>>

AddAssign ==
    /\ Fresh
    /\ \E b \in Angles(kind) :
        /\ other' = b
        /\ self' = add_assign(kind, self, b)
    /\ op' = "add_assign"
    /\ UNCHANGED <<kind, k, angles, out, truth, ord, num>>

SubAssign ==
    /\ Fresh
    /\ \E b \in Angles(kind) :
        /\ other' = b
        /\ self' = sub_assign(kind, self, b)
    /\ op' = "sub_assign"
    /\ UNCHANGED <<kind, k, angles, out, truth, ord, num>>

Mul ==
    /\ Fresh
    /\ \E x \in Scalars(kind) :
        /\ k' = x
        /\ out' = mul(kind, self, x)
    /\ op' = "mul"
    /\ UNCHANGED <<kind, self, other, angles, truth, ord, num>>

\* Division by zero is left out: it panics (integer) or yields a non-finite payload.
Div ==
    /\ Fresh
    /\ \E x \in Scalars(kind) \ {0} :
        /\ k' = x
        /\ out' = div(kind, self, x)
    /\ op' = "div"
    /\ UNCHANGED <<kind, self, other, angles, truth, ord, num>>

MulAssign ==
    /\ Fresh
    /\ \E x \in Scalars(kind) :
        /\ k' = x
        /\ self' = mul_assign(kind, self, x)
    /\ op' = "mul_assign"
    /\ UNCHANGED <<kind, other, angles, out, truth, ord, num>>

DivAssign ==
    /\ Fresh
    /\ \E x \in Scalars(kind) \ {0} :
        /\ k' = x
        /\ self' = div_assign(kind, self, x)
    /\ op' = "div_assign"
    /\ UNCHANGED <<kind, other, angles, out, truth, ord, num>>

Eq ==
    /\ Fresh
    /\ \E b \in Angles(kind) :
        /\ other' = b
        /\ truth' = eq(kind, self, b)
    /\ op' = "eq"
    /\ UNCHANGED <<kind, self, k, angles, out, ord, num>>

PartialCmp ==
    /\ Fresh
    /\ \E b \in Angles(kind) :
        /\ other' = b
        /\ ord' = partial_cmp(kind, self, b)
    /\ op' = "partial_cmp"
    /\ UNCHANGED <<kind, self, k, angles, out, truth, num>>

Cmp ==
    /\ Fresh
    /\ kind = "i"
    /\ \E b \in Angles(kind) :
        /\ other' = b
        /\ ord' = cmp(kind, self, b)
    /\ op' = "cmp"
    /\ UNCHANGED <<kind, self, k, angles, out, truth, num>>

Normalized ==
    /\ Fresh
    /\ out' = normalized(kind, self)
    /\ op' = "normalized"
    /\ UNCHANGED <<kind, self, other, k, angles, truth, ord, num>>

MinDist ==
    /\ Fresh
    /\ kind = "f"
    /\ \E b \in Angles(kind) :
        /\ other' = b
        /\ out' = min_dist(self, b)
    /\ op' = "min_dist"
    /\ UNCHANGED <<kind, self, k, angles, truth, ord, num>>

InRadians ==
    /\ Fresh
    /\ num' = in_radians(kind, self)
    /\ op' = "in_radians"
    /\ UNCHANGED <<kind, self, other, k, angles, out, truth, ord>>

InDegrees ==
    /\ Fresh
    /\ num' = in_degrees(kind, self)
    /\ op' = "in_degrees"
    /\ UNCHANGED <<kind, self, other, k, angles, out, truth, ord>>

\* mean_angle is a free function: it reads only the sequence it is handed.
MeanAngle ==
    /\ op = "zero"
    /\ \E as \in SeqsUpTo(MeanAngles, MaxLen) \ {<<>>} :
        /\ angles' = as
        /\ out' = mean_angle(as)
    /\ op' = "mean_angle"
    /\ UNCHANGED <<kind, self, other, k, truth, ord, num>>

Next ==
    \/ Construct
    \/ Add
    \/ Sub
    \/ AddAssign
    \/ SubAssign
    \/ Mul
    \/ Div
    \/ MulAssign
    \/ DivAssign
    \/ Eq
    \/ PartialCmp
    \/ Cmp
    \/ Normalized
    \/ MinDist
    \/ InRadians
    \/ InDegrees
    \/ MeanAngle

Spec == Init /\ [][Next]_vars
(***************************************************************************)
(* The claims.                                                             *)
(***************************************************************************)
BothDegrees == self.unit = "Degrees" /\ other.unit = "Degrees"

\* C1: a + b and a - b are Degrees, computed on the degree payloads, when both
\* operands are Degrees, and Radians, computed on the radian measures, otherwise.
C1_AdditiveUnitRule ==
    /\ op = "add" =>
        /\ out.unit = IF BothDegrees THEN "Degrees" ELSE "Radians"
        /\ out.v = IF BothDegrees THEN TAdd(kind, self.v, other.v)
                   ELSE TAdd(kind, in_radians(kind, self), in_radians(kind, other))
    /\ op = "sub" =>
        /\ out.unit = IF BothDegrees THEN "Degrees" ELSE "Radians"
        /\ out.v = IF BothDegrees THEN TSub(kind, self.v, other.v)
                   ELSE TSub(kind, in_radians(kind, self), in_radians(kind, other))

\* Two Degrees were added whose direct sum is not the degree measure of the sum
\* of their radian measures, and a mixed pair was not what was added.
C1_Witness ==
    /\ op = "add"
    /\ BothDegrees
    /\ out = Degrees(TAdd(kind, self.v, other.v))
    /\ out.v # in_degrees(kind, Radians(TAdd(kind, in_radians(kind, self), in_radians(kind, other))))

\* C2: a == b compares the payloads when both are Degrees and the radian
\* measures in every other pairing.
C2_EqUnitRule ==
    op = "eq" =>
        truth = IF BothDegrees THEN self.v = other.v
                ELSE in_radians(kind, self) = in_radians(kind, other)

\* Two Degrees with different payloads and equal radian measures compared unequal.
C2_Witness ==
    /\ op = "eq"
    /\ BothDegrees
    /\ self.v # other.v
    /\ in_radians(kind, self) = in_radians(kind, other)
    /\ ~truth

Period(t, unit) == IF unit = "Radians" THEN TwoPiT(t) ELSE Whole(t, 360)

\* C3: a.normalized() keeps the variant, its payload p has 0 <= p < period and
\* is congruent to a's payload modulo the period (it is the representative in
\* [0, period), up to the rounding of one addition), and a payload already in
\* [0, period) is returned unchanged (floating-point payloads).
C3_NormalizedInRange ==
    (kind = "f" /\ op = "normalized") =>
        LET period == Period(kind, self.unit)
        IN  /\ out.unit = self.unit
            /\ 0 <= out.v
            /\ out.v < period
            /\ 2 * AbsI(out.v - (self.v % period)) <= Ulp(period)
            /\ (0 <= self.v /\ self.v < period) => out.v = self.v

\* C4: a.min_dist(b) is Radians with a payload in [0, pi], on both paths.
C4_MinDistRange ==
    op = "min_dist" =>
        /\ out.unit = "Radians"
        /\ 0 <= out.v
        /\ out.v <= PiT("f")

FastPath ==
    LET ra == in_radians("f", self)
        rb == in_radians("f", other)
    IN  ra >= 0 /\ ra < TwoPiT("f") /\ rb >= 0 /\ rb < TwoPiT("f")

\* The general path was taken on a difference of more than a turn and gave a
\* distance strictly inside (0, pi).
C4_Witness ==
    /\ op = "min_dist"
    /\ ~FastPath
    /\ AbsI(FSub(in_radians("f", self), in_radians("f", other))) > TwoPiT("f")
    /\ 0 < out.v
    /\ out.v < PiT("f")

\* C5: after `a += b`, `a -= b`, `a *= x`, `a /= x` the receiver is what
\* a + b, a - b, a * x, a / x return for the same operands.
C5_InPlaceAgrees ==
    [][/\ op' = "add_assign" => self' = add(kind, self, other')
       /\ op' = "sub_assign" => self' = sub(kind, self, other')
       /\ op' = "mul_assign" => self' = mul(kind, self, k')
       /\ op' = "div_assign" => self' = div(kind, self, k')]_vars

\* A Degrees operand was added in place and the receiver is Degrees.
C5_Witness ==
    /\ op = "add_assign"
    /\ other.unit = "Degrees"
    /\ other.v # 0
    /\ self.unit = "Degrees"
    /\ self.v # other.v
\* C6 (as claimed): (a * x).in_radians() == a.in_radians() * x for every angle
\* a and scalar x, and a * x keeps a's variant.
C6_ScalingCommutesWithRadians ==
    op = "mul" =>
        /\ out.unit = self.unit
        /\ in_radians(kind, out) = TMul(kind, in_radians(kind, self), k)

\* C6 (amended): a * x keeps a's variant and scales a's payload, so scaling
\* commutes with the accessor of a's own unit: in_radians for a Radians a,
\* in_degrees for a Degrees a.
C6_ScalingCommutesInOwnUnit ==
    op = "mul" =>
        /\ out.unit = self.unit
        /\ out.v = TMul(kind, self.v, k)
        /\ self.unit = "Radians" =>
            in_radians(kind, out) = TMul(kind, in_radians(kind, self), k)
        /\ self.unit = "Degrees" =>
            in_degrees(kind, out) = TMul(kind, in_degrees(kind, self), k)

\* A Degrees angle was scaled and the radian measure of the product is not the
\* scaled radian measure.
C6_Witness ==
    /\ op = "mul"
    /\ self.unit = "Degrees"
    /\ out = Degrees(TMul(kind, self.v, k))
    /\ in_radians(kind, out) # TMul(kind, in_radians(kind, self), k)

\* The absolute tolerance of tests::are_close (1.0e-10 for f64), scaled to the
\* format: 16 units in the last place of 1.0.
Tolerance == 32

ConversionsKeepOwnUnit ==
    /\ (op = "in_radians" /\ self.unit = "Radians") => num = self.v
    /\ (op = "in_degrees" /\ self.unit = "Degrees") => num = self.v

DegF(d) == Degrees(Whole("f", d))

\* C8: mean_angle of a non-empty sequence is Radians with a payload in
\* [0, 2 pi); angles straddling the wrap point are averaged across it: the mean
\* of 20 and 350 degrees is 5 degrees (not 185), the mean of 90, 180 and 270
\* degrees is 180 degrees (each to the last place of the format).
C8_MeanAngleInRange ==
    op = "mean_angle" =>
        /\ out.unit = "Radians"
        /\ 0 <= out.v
        /\ out.v < TwoPiT("f")
        /\ angles = <<DegF(20), DegF(350)>> =>
            AbsI(out.v - in_radians("f", DegF(5))) <= Ulp(in_radians("f", DegF(5)))
        /\ angles = <<DegF(90), DegF(180), DegF(270)>> =>
            AbsI(out.v - in_radians("f", DegF(180))) <= Ulp(in_radians("f", DegF(180)))

\* What min_dist reduces and folds: the computed difference of the radian measures.
RawDiff == AbsI(FSub(in_radians("f", self), in_radians("f", other)))

\* min(r, 2 pi - r) for r the difference reduced into [0, 2 pi), without rounding.
CircularDistance ==
    LET r == RawDiff % TwoPiT("f") IN MinI(r, TwoPiT("f") - r)

GeneralPath(d) == FSub(PiT("f"), AbsI(FSub(TRem("f", d, TwoPiT("f")), PiT("f"))))

\* C9 (as claimed): on both paths min_dist returns min(r, 2 pi - r), and the
\* general-path formula gives the fast-path value on fast-path operands.
C9_ExactCircularDistance ==
    op = "min_dist" =>
        /\ out.v = CircularDistance
        /\ FastPath => GeneralPath(RawDiff) = out.v

\* C9 (amended): on the fast path min_dist returns min(r, 2 pi - r) exactly; on
\* the general path it returns it up to the rounding of one subtraction, half a
\* unit in the last place of pi at most, and the general-path formula agrees
\* with the fast-path value on fast-path operands to the same tolerance.
C9_CircularDistanceUpToRounding ==
    op = "min_dist" =>
        /\ FastPath => out.v = CircularDistance
        /\ 2 * AbsI(out.v - CircularDistance) <= Ulp(PiT("f"))
        /\ FastPath => 2 * AbsI(GeneralPath(RawDiff) - out.v) <= Ulp(PiT("f"))

\* The general path was taken and its result is not min(r, 2 pi - r).
C9_Witness ==
    /\ op = "min_dist"
    /\ ~FastPath
    /\ out.v # CircularDistance

\* C10: a == b holds exactly when a.partial_cmp(&b) is Some(Equal) and, for an
\* Ord payload kind, when a.cmp(&b) is Equal.
C10_EqAgreesWithOrdering ==
    /\ op = "eq" => (truth <=> partial_cmp(kind, self, other) = "Equal")
    /\ op = "partial_cmp" => (ord = "Equal" <=> eq(kind, self, other))
    /\ op = "cmp" => (ord = "Equal" <=> eq(kind, self, other))

\* C11: == on angles is an equivalence relation: a == a, a == b exactly when
\* b == a, and for every third angle c of the same payload kind, in either
\* unit, a == b and b == c imply a == c.
C11_EqIsEquivalence ==
    op = "eq" =>
        /\ eq(kind, self, self)
        /\ truth <=> eq(kind, other, self)
        /\ truth => \A c \in Angles(kind) :
                        eq(kind, other, c) => eq(kind, self, c)
====
